---- MODULE Spec2Model ----
(***************************************************************************)
(* BidBot: the analysis task service (api/services/task_service.py), the   *)
(* LangGraph pipeline it drives (src/graph/bidding_graph.py with the nodes *)
(* of src/agents/), the state reducers and the result merge of             *)
(* src/models/data_models.py.                                              *)
(*                                                                         *)
(* Python None is the string "None"; an optional object is a record with a *)
(* flag, so that every field keeps one type.                               *)
(***************************************************************************)
EXTENDS Naturals, Integers, Sequences, FiniteSets, TLC

\* ---------------------------------------------------------------- bounds
MaxTasks == 3
MaxTime == 2
MaxAge == 1
MaxLen == 2

\* ------------------------------------------------------ program constants
max_workers == 2

None == "None"

TaskIds == 1..MaxTasks
Workers == 1..max_workers

Extractors == {"basic_info_extractor", "scoring_analyzer", "contract_info_extractor"}

\* The order in which the graph declares the three extraction nodes.
ExtractorOrder == <<"basic_info_extractor", "scoring_analyzer", "contract_info_extractor">>

\* ------------------------------------------------------------ data model
\* DocumentSource, reduced to the field the merge reads; has = FALSE is a
\* field whose source is None.
NoSource == [has |-> FALSE, source_text |-> None]
DocumentSource(text) == [has |-> TRUE, source_text |-> text]

ExtractedField(v, src) == [value |-> v, source |-> src]
EmptyField == ExtractedField(None, NoSource)

ScoringItem(cat, name, max, src) ==
    [category |-> cat, item_name |-> name, max_score |-> max, source |-> src]

QualificationCriteria ==
    [company_certifications |-> <<>>, project_experience |-> <<>>]

BasicInformation ==
    [project_name |-> EmptyField, tender_number |-> EmptyField,
     budget_amount |-> EmptyField,
     qualification_criteria |-> QualificationCriteria]

ScoreComposition == [technical_score |-> EmptyField, other_scores |-> <<>>]

ScoringCriteria ==
    [evaluation_method |-> EmptyField, score_composition |-> ScoreComposition,
     detailed_scoring |-> <<>>, bonus_points |-> <<>>]

ContractInformation ==
    [breach_liability |-> <<>>, contract_terms |-> <<>>,
     payment_terms |-> EmptyField, risk_warnings |-> <<>>]

BiddingAnalysisResult(name) ==
    [document_name |-> name,
     basic_information |-> BasicInformation,
     scoring_criteria |-> ScoringCriteria,
     contract_information |-> ContractInformation,
     processing_notes |-> <<>>]

\* Python truthiness of an Optional[str], and str.strip() on the values
\* the model uses (the only blank value is a single space).
Truthy(v) == v \notin {None, ""}
Strip(v) == IF v = " " THEN "" ELSE v
HasValue(f) == Truthy(f.value) /\ Truthy(Strip(f.value))

\* ---------------------------------------------------------- result merge
SameField(a, b) ==
    /\ a.value = b.value
    /\ a.source.has
    /\ b.source.has
    /\ a.source.source_text = b.source.source_text

RECURSIVE merge_extracted_field_list(_, _)
merge_extracted_field_list(existing_list, new_list) ==
    IF new_list = <<>> THEN existing_list
    ELSE LET new_item == Head(new_list)
             exists == \E i \in 1..Len(existing_list) :
                          SameField(existing_list[i], new_item)
         IN merge_extracted_field_list(
                IF exists THEN existing_list ELSE Append(existing_list, new_item),
                Tail(new_list))

SameScoringItem(a, b) ==
    a.category = b.category /\ a.item_name = b.item_name

RECURSIVE merge_scoring_item_list(_, _)
merge_scoring_item_list(existing_list, new_list) ==
    IF new_list = <<>> THEN existing_list
    ELSE LET new_item == Head(new_list)
             exists == \E i \in 1..Len(existing_list) :
                          SameScoringItem(existing_list[i], new_item)
         IN merge_scoring_item_list(
                IF exists THEN existing_list ELSE Append(existing_list, new_item),
                Tail(new_list))

\* "if new_field.value and new_field.value.strip(): new else existing"
MergeField(existing_field, new_field) ==
    IF HasValue(new_field) THEN new_field ELSE existing_field

merge_qualification_criteria(existing, new) ==
    [company_certifications |->
         merge_extracted_field_list(existing.company_certifications,
                                    new.company_certifications),
     project_experience |->
         merge_extracted_field_list(existing.project_experience,
                                    new.project_experience)]

merge_basic_information(existing, new) ==
    [project_name |-> MergeField(existing.project_name, new.project_name),
     tender_number |-> MergeField(existing.tender_number, new.tender_number),
     budget_amount |-> MergeField(existing.budget_amount, new.budget_amount),
     qualification_criteria |->
         merge_qualification_criteria(existing.qualification_criteria,
                                      new.qualification_criteria)]

merge_score_composition(existing, new) ==
    [technical_score |-> MergeField(existing.technical_score, new.technical_score),
     other_scores |->
         merge_extracted_field_list(existing.other_scores, new.other_scores)]

merge_scoring_criteria(existing, new) ==
    [evaluation_method |->
         MergeField(existing.evaluation_method, new.evaluation_method),
     score_composition |->
         merge_score_composition(existing.score_composition, new.score_composition),
     detailed_scoring |->
         merge_scoring_item_list(existing.detailed_scoring, new.detailed_scoring),
     bonus_points |->
         merge_extracted_field_list(existing.bonus_points, new.bonus_points)]

merge_contract_information(existing, new) ==
    [breach_liability |->
         merge_extracted_field_list(existing.breach_liability, new.breach_liability),
     contract_terms |->
         merge_extracted_field_list(existing.contract_terms, new.contract_terms),
     payment_terms |-> MergeField(existing.payment_terms, new.payment_terms),
     risk_warnings |->
         merge_extracted_field_list(existing.risk_warnings, new.risk_warnings)]

\* list(set(xs)): the distinct elements of xs in an order the interpreter
\* picks; SetOrders is every order it can pick.
Range(s) == {s[i] : i \in 1..Len(s)}
SetOrders(S) ==
    {s \in [1..Cardinality(S) -> S] : Range(s) = S}

\* merge_analysis_results with the order of processing_notes given by notes,
\* one of SetOrders(set(existing.processing_notes + new.processing_notes)).
MergeWithNotes(existing, new, notes) ==
    [document_name |->
         IF Truthy(new.document_name) THEN new.document_name
         ELSE existing.document_name,
     basic_information |->
         merge_basic_information(existing.basic_information, new.basic_information),
     scoring_criteria |->
         merge_scoring_criteria(existing.scoring_criteria, new.scoring_criteria),
     contract_information |->
         merge_contract_information(existing.contract_information,
                                    new.contract_information),
     processing_notes |-> notes]

NoteOrders(existing, new) ==
    SetOrders(Range(existing.processing_notes \o new.processing_notes))

merge_analysis_results(existing, new) ==
    {MergeWithNotes(existing, new, notes) : notes \in NoteOrders(existing, new)}

\* --------------------------------------------------- parallel aggregator
\* _validate_analysis_completeness: a non-empty list or a truthy value.
_validate_analysis_completeness(analysis_result) ==
    LET basic_info == analysis_result.basic_information
        scoring == analysis_result.scoring_criteria
        contract == analysis_result.contract_information
    IN [basic_information |->
            \/ Truthy(basic_info.project_name.value)
            \/ Truthy(basic_info.tender_number.value)
            \/ basic_info.qualification_criteria.company_certifications # <<>>,
        scoring_criteria |->
            \/ Truthy(scoring.evaluation_method.value)
            \/ scoring.detailed_scoring # <<>>
            \/ Truthy(scoring.score_composition.technical_score.value),
        contract_information |->
            \/ contract.contract_terms # <<>>
            \/ contract.breach_liability # <<>>
            \/ Truthy(contract.payment_terms.value)]

Sections == {"basic_information", "scoring_criteria", "contract_information"}

completed_count(completeness) ==
    Cardinality({s \in Sections : completeness[s]})

\* A variant that derives the step from the sections alone and does not
\* look at the error list.
_determine_final_step_ignoring_errors(error_messages, completeness) ==
    IF completed_count(completeness) = 3
    THEN "parallel_extraction_completed"
    ELSE IF completed_count(completeness) > 0
         THEN "partial_extraction_completed"
         ELSE "extraction_failed"

_determine_final_step(error_messages, completeness) ==
    IF error_messages # <<>>
    THEN IF completed_count(completeness) > 0
         THEN "partial_extraction_completed"
         ELSE "extraction_failed"
    ELSE IF completed_count(completeness) = 3
         THEN "parallel_extraction_completed"
         ELSE IF completed_count(completeness) > 0
              THEN "partial_extraction_completed"
              ELSE "extraction_failed"

\* ------------------------------------------------------- pipeline state
\* One entry of error_messages: the node that recorded it and, for an
\* extraction node, the sub-step whose except branch recorded it.
Err(node, sub) == [node |-> node, sub |-> sub]

\* GraphStateModel, without the fields no modelled step reads
\* (document_path, chunks, retry_count); vector_store is TRUE when set.
GraphStateModel(name) ==
    [current_step |-> "start",
     error_messages |-> <<>>,
     analysis_result |-> BiddingAnalysisResult(name),
     document_content |-> FALSE,
     vector_store |-> FALSE]

\* A variant without the reducer on analysis_result: the last returned
\* result replaces the one in the graph state.
ReduceLastWrite(state, update) ==
    {[current_step |-> update.current_step,
      error_messages |-> state.error_messages \o update.error_messages,
      analysis_result |-> update.analysis_result,
      document_content |-> update.document_content,
      vector_store |-> update.vector_store]}

\* The reducers of GraphState: operator.add on error_messages,
\* merge_analysis_results on analysis_result, last write wins elsewhere.
Reduce(state, update) ==
    {[current_step |-> update.current_step,
      error_messages |-> state.error_messages \o update.error_messages,
      analysis_result |-> ar,
      document_content |-> update.document_content,
      vector_store |-> update.vector_store]
        : ar \in merge_analysis_results(state.analysis_result,
                                        update.analysis_result)}

RECURSIVE ReduceAll(_, _)
ReduceAll(states, updates) ==
    IF updates = <<>> THEN states
    ELSE ReduceAll(UNION {Reduce(s, Head(updates)) : s \in states},
                   Tail(updates))

\* ---------------------------------------------------- document processor
\* What the loader, the vector store and the document give:
\*   "ok"            every sub-step succeeds
\*   "ok_structure"  the same, and a chapter structure is found (one note)
\*   "load_failed"   process_document records an error (missing file,
\*                   loader or vector store exception); no vector store
\*   "empty_content" process_document succeeds, validate_document finds
\*                   no content
DocOutcomes == {"ok", "ok_structure", "load_failed", "empty_content"}

document_processor_node(state, outcome) ==
    CASE outcome = "load_failed" ->
            [state EXCEPT
                !.error_messages = Append(@, Err("document_processor", 1)),
                !.current_step = "error"]
      [] outcome = "empty_content" ->
            [state EXCEPT
                !.vector_store = TRUE,
                !.error_messages = Append(@, Err("document_processor", 2)),
                !.current_step = "error"]
      [] outcome = "ok" ->
            [state EXCEPT
                !.vector_store = TRUE,
                !.document_content = TRUE,
                !.current_step = "structure_extracted"]
      [] OTHER ->
            [state EXCEPT
                !.vector_store = TRUE,
                !.document_content = TRUE,
                !.analysis_result.processing_notes = Append(@, "structure"),
                !.current_step = "structure_extracted"]

\* ------------------------------------------------------ extraction nodes
\* The number of sub-steps each node runs, each in its own try/except.
SubSteps(e) ==
    CASE e = "basic_info_extractor" -> 4
      [] e = "scoring_analyzer" -> 2
      [] e = "contract_info_extractor" -> 3

\* What the collaborators give one extraction node: the sub-steps that
\* raise, and what the answers of the others hold ("all": every field,
\* "unchecked": only fields the completeness check does not read, "none":
\* nothing).  Without a vector store every sub-step raises.
Fills == {"all", "unchecked", "none"}

ExtractOutcomes(e, vector_store) ==
    IF ~vector_store
    THEN {[raised |-> 1..SubSteps(e), fill |-> "none"]}
    ELSE {[raised |-> r, fill |-> f] : r \in {{}, {1}}, f \in Fills}
         \cup {[raised |-> 1..SubSteps(e), fill |-> "none"]}

Field(v) == ExtractedField(v, DocumentSource(v))
Item(c) == ScoringItem(c, c, "10", DocumentSource(c))

Got(o, sub, fills) == sub \notin o.raised /\ o.fill \in fills

_update_basic_info(state, o) ==
    [state EXCEPT
        !.analysis_result.basic_information.project_name =
            IF Got(o, 1, {"all"}) THEN Field("name") ELSE @,
        !.analysis_result.basic_information.tender_number =
            IF Got(o, 1, {"all"}) THEN Field("number") ELSE @,
        !.analysis_result.basic_information.budget_amount =
            IF Got(o, 1, {"all", "unchecked"}) THEN Field("budget") ELSE @,
        !.analysis_result.basic_information.qualification_criteria.company_certifications =
            IF Got(o, 2, {"all"}) THEN <<Field("cert")>> ELSE @,
        !.analysis_result.basic_information.qualification_criteria.project_experience =
            IF Got(o, 2, {"all", "unchecked"}) THEN <<Field("exp")>> ELSE @,
        !.current_step = IF 1 \notin o.raised THEN "basic_info_extracted" ELSE @]

_update_scoring_criteria(state, o) ==
    [state EXCEPT
        !.analysis_result.scoring_criteria.evaluation_method =
            IF Got(o, 1, {"all"}) THEN Field("method") ELSE @,
        !.analysis_result.scoring_criteria.score_composition.technical_score =
            IF Got(o, 1, {"all"}) THEN Field("tech") ELSE @,
        !.analysis_result.scoring_criteria.bonus_points =
            IF Got(o, 1, {"all", "unchecked"}) THEN <<Field("bonus")>> ELSE @,
        !.analysis_result.scoring_criteria.detailed_scoring =
            IF Got(o, 2, {"all"}) THEN <<Item("price"), Item("quality")>> ELSE @,
        !.current_step = IF 2 \notin o.raised THEN "scoring_analyzed" ELSE @]

_update_contract_info(state, o) ==
    [state EXCEPT
        !.analysis_result.contract_information.breach_liability =
            IF Got(o, 1, {"all"}) THEN <<Field("breach")>> ELSE @,
        !.analysis_result.contract_information.payment_terms =
            IF Got(o, 2, {"all"}) THEN Field("payment") ELSE @,
        !.analysis_result.contract_information.contract_terms =
            IF Got(o, 2, {"all"}) THEN <<Field("term")>> ELSE @,
        !.analysis_result.contract_information.risk_warnings =
            IF Got(o, 3, {"all", "unchecked"}) THEN <<Field("risk")>> ELSE @,
        !.current_step = IF 3 \notin o.raised THEN "other_info_extracted" ELSE @]

\* The except branches of the sub-steps, in the order the node runs them.
RECURSIVE SubStepErrors(_, _, _)
SubStepErrors(e, raised, sub) ==
    IF sub > SubSteps(e) THEN <<>>
    ELSE (IF sub \in raised THEN <<Err(e, sub)>> ELSE <<>>)
         \o SubStepErrors(e, raised, sub + 1)

\* basic_info_extractor_node, scoring_analyzer_node and
\* contract_info_extractor_node: the node returns the whole state it was
\* given, with its own section and its own errors added.
extractor_node(e, state, o) ==
    LET filled ==
            CASE e = "basic_info_extractor" -> _update_basic_info(state, o)
              [] e = "scoring_analyzer" -> _update_scoring_criteria(state, o)
              [] e = "contract_info_extractor" -> _update_contract_info(state, o)
    IN [filled EXCEPT
           !.error_messages = @ \o SubStepErrors(e, o.raised, 1)]

\* ------------------------------------------------------------ aggregator
\* aggregate_parallel_results; raises is an exception inside its try block.
parallel_aggregator_node(state, raises) ==
    IF raises
    THEN [state EXCEPT
             !.error_messages = Append(@, Err("parallel_aggregator", 0)),
             !.current_step = "aggregation_failed"]
    ELSE [state EXCEPT
             !.current_step =
                 _determine_final_step(
                     state.error_messages,
                     _validate_analysis_completeness(state.analysis_result))]

\* "continue" or "error"; the third component tells whether the route
\* reports the step output_formatter to the progress callback.
_route_after_parallel_aggregation(current_step) ==
    IF current_step \in {"error", "aggregation_failed"}
    THEN [to |-> "error", progress |-> FALSE]
    ELSE IF current_step \in {"parallel_extraction_completed",
                              "partial_extraction_completed"}
         THEN [to |-> "continue", progress |-> TRUE]
         ELSE IF current_step = "extraction_failed"
              THEN [to |-> "error", progress |-> FALSE]
              ELSE [to |-> "continue", progress |-> FALSE]

\* ------------------------------------------------------ output formatter
\* format_output; saved is FALSE when rendering or writing the report raises.
output_formatter_node(state, saved) ==
    IF saved
    THEN [state EXCEPT
             !.current_step = "completed",
             !.analysis_result.processing_notes = Append(@, "report")]
    ELSE [state EXCEPT
             !.error_messages = Append(@, Err("output_formatter", 0)),
             !.current_step = "error"]

\* error_handler_node: state.get("analysis_result") is a
\* BiddingAnalysisResult object, which is always truthy, so the node
\* always hands the state to a formatter node.
HasAnalysisResult(state) == TRUE

error_handler_node(state, saved) ==
    IF HasAnalysisResult(state)
    THEN output_formatter_node(state, saved)
    ELSE [state EXCEPT !.current_step = "failed"]

\* ---------------------------------------------------------- task service
\* Optional values of the task record and of the run's result.
NoResult == [has |-> FALSE, value |-> BiddingAnalysisResult(None)]
SomeResult(ar) == [has |-> TRUE, value |-> ar]
NoErrorMessage == [has |-> FALSE, value |-> <<>>]
\* "; ".join(error_messages): the joined string is kept as the sequence of
\* the messages it joins.
JoinMessages(error_messages) == [has |-> TRUE, value |-> error_messages]
NoAgentProgress == [has |-> FALSE, value |-> [e \in Extractors |-> 0]]

AnalysisProgress(step, percentage, description, agents) ==
    [current_step |-> step,
     progress_percentage |-> percentage,
     step_description |-> description,
     agent_progress |-> agents]

\* step_mapping, with the default of dict.get for a step it does not list.
step_mapping(step) ==
    CASE step = "start" -> [progress |-> 0, description |-> "start"]
      [] step = "document_processor" -> [progress |-> 20, description |-> "preprocessing"]
      [] step = "basic_info_extractor" -> [progress |-> 40, description |-> "basic info"]
      [] step = "scoring_analyzer" -> [progress |-> 60, description |-> "scoring"]
      [] step = "other_info_extractor" -> [progress |-> 80, description |-> "other info"]
      [] step = "contract_info_extractor" -> [progress |-> 80, description |-> "contract info"]
      [] step = "parallel_aggregator" -> [progress |-> 85, description |-> "aggregating"]
      [] step = "parallel_extraction_completed" -> [progress |-> 85, description |-> "parallel done"]
      [] step = "partial_extraction_completed" -> [progress |-> 75, description |-> "partial done"]
      [] step = "extraction_failed" -> [progress |-> 0, description |-> "extraction failed"]
      [] step = "aggregation_failed" -> [progress |-> 0, description |-> "aggregation failed"]
      [] step = "output_formatter" -> [progress |-> 90, description |-> "formatting"]
      [] step = "completed" -> [progress |-> 100, description |-> "analysis completed"]
      [] step = "failed" -> [progress |-> 0, description |-> "analysis failed"]
      [] OTHER -> [progress |-> 0, description |-> step]

parallel_steps ==
    {"basic_info_extractor", "scoring_analyzer", "contract_info_extractor",
     "parallel_aggregator", "parallel_extraction_completed",
     "partial_extraction_completed"}

Max(a, b) == IF a > b THEN a ELSE b
Min(a, b) == IF a < b THEN a ELSE b

\* ParallelProgressManager.get_overall_progress on the map registry.
RECURSIVE SumOver(_, _)
SumOver(f, S) ==
    IF S = {} THEN 0
    ELSE LET x == CHOOSE y \in S : TRUE IN f[x] + SumOver(f, S \ {x})

\* A variant without the cap at 100.
get_overall_progress_uncapped(registry) ==
    SumOver(registry, DOMAIN registry) \div 3

get_overall_progress(registry) ==
    Min(100, SumOver(registry, DOMAIN registry) \div 3)

get_progress_description(registry) ==
    LET completed_agents == {a \in DOMAIN registry : registry[a] >= 100}
        in_progress_agents ==
            {a \in DOMAIN registry : 0 < registry[a] /\ registry[a] < 100}
    IN IF Cardinality(completed_agents) = 3 THEN "parallel done, aggregating"
       ELSE IF completed_agents # {} THEN "parallel running, some done"
       ELSE IF in_progress_agents # {} THEN "parallel running"
       ELSE "parallel about to start"

\* The AnalysisProgress that _update_task_status builds for current_step.
StatusProgress(current_step, registry) ==
    LET step_info == step_mapping(current_step)
        overall_progress == get_overall_progress(registry)
    IN IF current_step \in parallel_steps
       THEN AnalysisProgress(
                current_step,
                IF current_step \in Extractors
                THEN Max(20, overall_progress) ELSE step_info.progress,
                IF current_step \in Extractors
                       \cup {"parallel_extraction_completed",
                             "partial_extraction_completed"}
                THEN get_progress_description(registry)
                ELSE step_info.description,
                [has |-> TRUE, value |-> registry])
       ELSE AnalysisProgress(current_step, step_info.progress,
                             step_info.description, NoAgentProgress)

\* A variant whose record starts in a terminal status.
NewTaskFailed(created) ==
    [status |-> "failed",
     progress |-> AnalysisProgress("start", 0, "waiting to start", NoAgentProgress),
     result |-> NoResult,
     error_message |-> NoErrorMessage,
     report_file_path |-> None,
     session_id |-> None,
     created_at |-> created]

\* The record create_analysis_task stores when it is called without a
\* session_id, which then has its default None.
NewTask(created) ==
    [status |-> "pending",
     progress |-> AnalysisProgress("start", 0, "waiting to start", NoAgentProgress),
     result |-> NoResult,
     error_message |-> NoErrorMessage,
     report_file_path |-> None,
     session_id |-> None,
     created_at |-> created]

\* _extract_report_file_path: the path in the first note that names one.
_extract_report_file_path(result) ==
    IF result.analysis_result.has
         /\ "report" \in Range(result.analysis_result.value.processing_notes)
    THEN "report.md" ELSE None

_update_task_result(task_info, result) ==
    [task_info EXCEPT
        !.status = "completed",
        !.result = result.analysis_result,
        !.report_file_path =
            IF Truthy(_extract_report_file_path(result))
            THEN _extract_report_file_path(result) ELSE @,
        !.progress = AnalysisProgress("completed", 100, "analysis completed",
                                      NoAgentProgress)]

\* A variant that stores the error and leaves the status as it was.
_update_task_error_keeping_status(task_info, error_message) ==
    [task_info EXCEPT
        !.error_message = error_message,
        !.progress = AnalysisProgress("failed", 0, "analysis failed",
                                      NoAgentProgress)]

_update_task_error(task_info, error_message) ==
    [task_info EXCEPT
        !.status = "failed",
        !.error_message = error_message,
        !.progress = AnalysisProgress("failed", 0, "analysis failed",
                                      NoAgentProgress)]

\* get_task_status: the AnalysisStatusResponse built from a task record.
AnalysisStatusResponse(task_info) ==
    [status |-> task_info.status,
     progress |-> task_info.progress,
     result |-> task_info.result,
     error_message |-> task_info.error_message,
     report_file_path |-> task_info.report_file_path,
     created_at |-> task_info.created_at]

\* What _run_analysis_sync and BiddingAnalysisGraph.run return.
FinalState(state) ==
    [current_step |-> state.current_step,
     error_messages |-> state.error_messages,
     analysis_result |-> SomeResult(state.analysis_result)]

FailedResult ==
    [current_step |-> "failed",
     error_messages |-> <<Err("exception", 0)>>,
     analysis_result |-> NoResult]

\* What a call returned or raised: its kind, the text it carries (the file
\* id of a submission), the number it carries (a task id, a count, a
\* percent) and its numeric argument.
Reply(kind, detail, value, arg) ==
    [kind |-> kind, detail |-> detail, value |-> value, arg |-> arg]

NoReply == Reply("none", None, 0, 0)

\* ------------------------------------------------------------------ state
VARIABLES
    tasks,          \* TaskService.tasks: task id -> task record
    issued,         \* the task ids create_analysis_task has generated
    now,            \* the clock, in hours
    coro,           \* task id -> where its _run_analysis_task coroutine is
    queue,          \* the work queue of the ThreadPoolExecutor
    future,         \* task id -> what _run_analysis_sync returned for it
    wk,             \* pool worker -> the run it executes
    agent_progress, \* parallel_progress_manager.agent_progress
    reply,          \* what the last call of the service returned or raised
    left,           \* merge_analysis_results: the snapshot existing
    right,          \* merge_analysis_results: the snapshot new
    merged,         \* merge_analysis_results: the results computed so far
    sessions        \* task id -> request.state.session_id of the request that
                    \* created the task

vars ==
    <<tasks, issued, now, coro, queue, future, wk, agent_progress, reply, left,
      right, merged, sessions>>

NoTasks == [t \in {} |-> NewTask(0)]
NoFutures == [t \in {} |-> FailedResult]
NoUpdates == [e \in {} |-> GraphStateModel(None)]

Put(f, k, v) == [x \in DOMAIN f \cup {k} |-> IF x = k THEN v ELSE f[x]]
Drop(f, ks) == [x \in DOMAIN f \ ks |-> f[x]]

NoMerged == [ab |-> NoResult, abb |-> NoResult, ba |-> NoResult]

\* VectorStoreManager.__init__: the directory under the base directory
\* that bears the session's name, or the base directory itself when the
\* session id is None or empty.  A path is the sequence of its parts.
vector_store_path == <<"vector_store">>

persist_directory(session_id) ==
    IF Truthy(session_id) THEN Append(vector_store_path, session_id)
    ELSE vector_store_path

\* A call of _run_analysis_sync as run_in_executor queues it.
Call(task_id, session_id) == [task_id |-> task_id, session_id |-> session_id]

\* A pool thread: the call it runs (task, session_id), its place in it, the
\* directory of the vector store manager of its graph (<<>> before the
\* graph is built), the graph state and the returns of the extraction nodes.
Idle ==
    [task |-> 0, session_id |-> None, pc |-> "idle", persist_directory |-> <<>>,
     state |-> GraphStateModel(None), updates |-> NoUpdates]

Init ==
    /\ tasks = NoTasks
    /\ issued = {}
    /\ now = 0
    /\ coro = [t \in TaskIds |-> "none"]
    /\ queue = <<>>
    /\ future = NoFutures
    /\ wk = [w \in Workers |-> Idle]
    /\ agent_progress = [e \in Extractors |-> 0]
    /\ reply = NoReply
    /\ left = BiddingAnalysisResult(None)
    /\ right = BiddingAnalysisResult(None)
    /\ merged = NoMerged
    /\ sessions = [t \in TaskIds |-> None]

\* ------------------------------------------------- submission and cleanup
\* file_service: the file ids a caller may name.  "usable" is registered
\* with a PDF path, "no_pdf" is registered without one, "unknown" is not
\* registered.
FileIds == {"usable", "no_pdf", "unknown"}

get_file_info(file_id) == file_id # "unknown"

get_pdf_path(file_id) ==
    IF get_file_info(file_id) /\ file_id = "usable" THEN "pdf" ELSE None

\* A variant that schedules a task for every registered file, with or
\* without a PDF path.
create_analysis_task_without_pdf_test(file_id, task_id) ==
    /\ task_id = Cardinality(issued) + 1
    /\ IF ~get_file_info(file_id)
       THEN /\ reply' = Reply("ValueError", file_id, 0, 0)
            /\ UNCHANGED <<issued, tasks, coro>>
       ELSE /\ issued' = issued \cup {task_id}
            /\ tasks' = Put(tasks, task_id, NewTask(now))
            /\ coro' = [coro EXCEPT ![task_id] = "created"]
            /\ reply' = Reply("task_id", file_id, task_id, 0)
    /\ UNCHANGED <<now, queue, future, wk, agent_progress, left, right, merged, sessions>>

\* create_analysis_task: ValueError for a file that is not registered or
\* has no PDF path; otherwise a fresh id (uuid4; the ids are taken in the
\* order 1, 2, ...), the pending record, and the coroutine handed to the
\* event loop.  Nothing in it awaits, so it is one step of the event loop.
create_analysis_task(file_id, task_id) ==
    /\ task_id = Cardinality(issued) + 1
    /\ IF ~get_file_info(file_id) \/ ~Truthy(get_pdf_path(file_id))
       THEN /\ reply' = Reply("ValueError", file_id, 0, 0)
            /\ UNCHANGED <<issued, tasks, coro>>
       ELSE /\ issued' = issued \cup {task_id}
            /\ tasks' = Put(tasks, task_id, NewTask(now))
            /\ coro' = [coro EXCEPT ![task_id] = "created"]
            /\ reply' = Reply("task_id", file_id, task_id, 0)
    /\ UNCHANGED <<now, queue, future, wk, agent_progress, left, right, merged, sessions>>

\* cleanup_old_tasks: total_seconds() > max_age_hours * 3600.
Expired(max_age_hours) ==
    {t \in DOMAIN tasks :
        (now - tasks[t].created_at) * 3600 > max_age_hours * 3600}

cleanup_old_tasks(max_age_hours) ==
    /\ tasks' = Drop(tasks, Expired(max_age_hours))
    /\ reply' = Reply("cleaned_count", None,
                      Cardinality(Expired(max_age_hours)), max_age_hours)
    /\ UNCHANGED <<issued, now, coro, queue, future, wk, agent_progress, left, right, merged, sessions>>

\* The calls of cleanup_old_tasks that find a task to remove.
CleanupThatRemoves(max_age_hours) ==
    /\ Expired(max_age_hours) # {}
    /\ cleanup_old_tasks(max_age_hours)

Tick ==
    /\ now < MaxTime
    /\ now' = now + 1
    /\ UNCHANGED <<tasks, issued, coro, queue, future, wk, agent_progress, reply, left, right, merged, sessions>>

\* ---------------------------------------------------- _run_analysis_task
\* Up to the await: the lookup, _update_task_status(PROCESSING, "start"),
\* and run_in_executor.  On the event loop thread, so in one step.
UpdateStatus(task_info, status, current_step) ==
    IF task_info.progress.current_step = current_step
    THEN task_info
    ELSE [task_info EXCEPT
             !.status = status,
             !.progress = StatusProgress(current_step, agent_progress)]

RunTaskStart(t) ==
    /\ coro[t] = "created"
    /\ IF t \notin DOMAIN tasks
       THEN /\ coro' = [coro EXCEPT ![t] = "done"]
            /\ UNCHANGED <<tasks, queue>>
       ELSE /\ tasks' = [tasks EXCEPT
                            ![t] = UpdateStatus(@, "processing", "start")]
            /\ queue' = Append(queue, Call(t, tasks[t].session_id))
            /\ coro' = [coro EXCEPT ![t] = "awaiting"]
    /\ UNCHANGED <<issued, now, future, wk, agent_progress, reply, left, right, merged, sessions>>

\* A variant that hands a run that did not complete to the pool again.
RunTaskFinishRetrying(t) ==
    /\ coro[t] = "awaiting"
    /\ t \in DOMAIN future
    /\ IF future[t].current_step = "completed"
       THEN /\ tasks' =
                  IF t \notin DOMAIN tasks THEN tasks
                  ELSE [tasks EXCEPT ![t] = _update_task_result(@, future[t])]
            /\ coro' = [coro EXCEPT ![t] = "done"]
            /\ UNCHANGED queue
       ELSE /\ queue' = Append(queue, Call(t, None))
            /\ UNCHANGED <<tasks, coro>>
    /\ UNCHANGED <<issued, now, future, wk, agent_progress, reply, left, right, merged, sessions>>

\* After the await: the result check and the final update of the record.
RunTaskFinish(t) ==
    /\ coro[t] = "awaiting"
    /\ t \in DOMAIN future
    /\ LET result == future[t] IN
         tasks' =
            IF t \notin DOMAIN tasks THEN tasks
            ELSE IF result.current_step = "completed"
                 THEN [tasks EXCEPT ![t] = _update_task_result(@, result)]
                 ELSE [tasks EXCEPT ![t] =
                          _update_task_error(@, JoinMessages(result.error_messages))]
    /\ coro' = [coro EXCEPT ![t] = "done"]
    /\ UNCHANGED <<issued, now, queue, future, wk, agent_progress, reply, left, right, merged, sessions>>

\* ------------------------------------------------------------ pool worker
\* A variant that leaves the call in the queue, so that it is run again.
WorkerTakeKeepingCall(w) ==
    /\ wk[w].pc = "idle"
    /\ \A v \in Workers : v < w => wk[v].pc # "idle"
    /\ queue # <<>>
    /\ wk' = [wk EXCEPT ![w] = [Idle EXCEPT !.task = Head(queue).task_id,
                                             !.session_id = Head(queue).session_id,
                                             !.pc = "sync"]]
    /\ UNCHANGED <<tasks, issued, now, coro, queue, future, agent_progress, reply, left, right, merged, sessions>>

\* A free worker thread takes the next call off the executor's queue; of
\* several free threads, which are interchangeable, the first one.
WorkerTake(w) ==
    /\ wk[w].pc = "idle"
    /\ \A v \in Workers : v < w => wk[v].pc # "idle"
    /\ queue # <<>>
    /\ wk' = [wk EXCEPT ![w] = [Idle EXCEPT !.task = Head(queue).task_id,
                                             !.session_id = Head(queue).session_id,
                                             !.pc = "sync"]]
    /\ queue' = Tail(queue)
    /\ UNCHANGED <<tasks, issued, now, coro, future, agent_progress, reply, left, right, merged, sessions>>

\* _run_analysis_sync builds the graph with the session_id it was given,
\* and the graph its DocumentProcessor and VectorStoreManager; built is
\* FALSE when building it raises, which the function's except turns into
\* the failed result.
BuildGraph(w, built) ==
    /\ wk[w].pc = "sync"
    /\ wk' = [wk EXCEPT
                 ![w].pc = IF built THEN "cb_document_processor" ELSE "raised",
                 ![w].persist_directory =
                     IF built THEN persist_directory(wk[w].session_id) ELSE @,
                 ![w].state = IF built THEN GraphStateModel("document") ELSE @]
    /\ UNCHANGED <<tasks, issued, now, coro, queue, future, agent_progress, reply, left, right, merged, sessions>>

\* progress_callback(step) runs _update_task_status on the worker thread.
CallbackStep(pc) ==
    CASE pc \in {"cb_document_processor", "cb_document_processor_2"} -> "document_processor"
      [] pc \in {"cb_output_formatter", "cb_output_formatter_2"} -> "output_formatter"
      [] pc \in {"cb_completed", "cb_completed_2"} -> "completed"

AfterCallback(pc) ==
    CASE pc \in {"cb_document_processor", "cb_document_processor_2"} -> "document_processor"
      [] pc \in {"cb_output_formatter", "cb_output_formatter_2"} -> "output_formatter"
      [] pc \in {"cb_completed", "cb_completed_2"} -> "return"

\* _update_task_status up to and including the write of status:
\* the two early returns, then task_info["status"] = status.
CallbackWriteStatus(w) ==
    LET t == wk[w].task
        pc == wk[w].pc
    IN /\ pc \in {"cb_document_processor", "cb_output_formatter", "cb_completed"}
       /\ IF t \notin DOMAIN tasks
             \/ tasks[t].progress.current_step = CallbackStep(pc)
          THEN /\ wk' = [wk EXCEPT ![w].pc = AfterCallback(pc)]
               /\ UNCHANGED tasks
          ELSE /\ tasks' = [tasks EXCEPT ![t].status = "processing"]
               /\ wk' = [wk EXCEPT ![w].pc =
                            CASE pc = "cb_document_processor" -> "cb_document_processor_2"
                              [] pc = "cb_output_formatter" -> "cb_output_formatter_2"
                              [] pc = "cb_completed" -> "cb_completed_2"]
       /\ UNCHANGED <<issued, now, coro, queue, future, agent_progress, reply, left, right, merged, sessions>>

\* The rest of _update_task_status: task_info["progress"] = ...; the
\* record it writes to may have left the table meanwhile.
CallbackWriteProgress(w) ==
    LET t == wk[w].task
        pc == wk[w].pc
    IN /\ pc \in {"cb_document_processor_2", "cb_output_formatter_2", "cb_completed_2"}
       /\ tasks' =
            IF t \in DOMAIN tasks
            THEN [tasks EXCEPT ![t].progress =
                     StatusProgress(CallbackStep(pc), agent_progress)]
            ELSE tasks
       /\ wk' = [wk EXCEPT ![w].pc = AfterCallback(pc)]
       /\ UNCHANGED <<issued, now, coro, queue, future, agent_progress, reply, left, right, merged, sessions>>

\* ------------------------------------------------------------- the graph
\* Entry point: the document_processor node, then the reducers.
DocumentProcessor(w, outcome) ==
    /\ wk[w].pc = "document_processor"
    /\ \E next_state \in
            Reduce(wk[w].state, document_processor_node(wk[w].state, outcome)) :
          wk' = [wk EXCEPT ![w].state = next_state, ![w].pc = "extract"]
    /\ UNCHANGED <<tasks, issued, now, coro, queue, future, agent_progress, reply, left, right, merged, sessions>>

\* The three edges out of document_processor are unconditional: each
\* extraction node runs on its own copy of the state of the superstep.
Extract(w, e, o) ==
    /\ wk[w].pc = "extract"
    /\ e \notin DOMAIN wk[w].updates
    /\ o \in ExtractOutcomes(e, wk[w].state.vector_store)
    /\ wk' = [wk EXCEPT
                 ![w].updates = Put(@, e, extractor_node(e, wk[w].state, o))]
    /\ UNCHANGED <<tasks, issued, now, coro, queue, future, agent_progress, reply, left, right, merged, sessions>>

\* The end of the superstep: when the three nodes have returned, their
\* returned states are reduced into the graph state, one after the other.
UpdatesInOrder(updates) == [i \in 1..3 |-> updates[ExtractorOrder[i]]]

\* A variant that ends the superstep as soon as one extraction node has
\* returned, and reduces the states returned so far.
JoinOnFirstReturn(w) ==
    /\ wk[w].pc = "extract"
    /\ DOMAIN wk[w].updates # {}
    /\ LET returned == SelectSeq(ExtractorOrder,
                                 LAMBDA e : e \in DOMAIN wk[w].updates)
       IN \E next_state \in
               ReduceAll({wk[w].state},
                         [i \in 1..Len(returned) |-> wk[w].updates[returned[i]]]) :
             wk' = [wk EXCEPT ![w].state = next_state,
                              ![w].pc = "parallel_aggregator"]
    /\ UNCHANGED <<tasks, issued, now, coro, queue, future, agent_progress, reply, left, right, merged, sessions>>

Join(w) ==
    /\ wk[w].pc = "extract"
    /\ DOMAIN wk[w].updates = Extractors
    /\ \E next_state \in
            ReduceAll({wk[w].state}, UpdatesInOrder(wk[w].updates)) :
          wk' = [wk EXCEPT ![w].state = next_state,
                           ![w].pc = "parallel_aggregator"]
    /\ UNCHANGED <<tasks, issued, now, coro, queue, future, agent_progress, reply, left, right, merged, sessions>>

Aggregate(w, raises) ==
    /\ wk[w].pc = "parallel_aggregator"
    /\ \E next_state \in
            Reduce(wk[w].state, parallel_aggregator_node(wk[w].state, raises)) :
          wk' = [wk EXCEPT ![w].state = next_state, ![w].pc = "route"]
    /\ UNCHANGED <<tasks, issued, now, coro, queue, future, agent_progress, reply, left, right, merged, sessions>>

\* The conditional edge after parallel_aggregator.
Route(w) ==
    /\ wk[w].pc = "route"
    /\ LET r == _route_after_parallel_aggregation(wk[w].state.current_step)
       IN wk' = [wk EXCEPT ![w].pc =
                    IF r.to = "error" THEN "error_handler"
                    ELSE IF r.progress THEN "cb_output_formatter"
                    ELSE "output_formatter"]
    /\ UNCHANGED <<tasks, issued, now, coro, queue, future, agent_progress, reply, left, right, merged, sessions>>

\* A variant with an edge from a failed output_formatter to error_handler.
OutputFormatterToErrorHandler(w, saved) ==
    /\ wk[w].pc = "output_formatter"
    /\ \E next_state \in
            Reduce(wk[w].state, output_formatter_node(wk[w].state, saved)) :
          wk' = [wk EXCEPT ![w].state = next_state,
                           ![w].pc = IF saved THEN "end" ELSE "error_handler"]
    /\ UNCHANGED <<tasks, issued, now, coro, queue, future, agent_progress, reply, left, right, merged, sessions>>

\* output_formatter, whose only edge leads to END.
OutputFormatter(w, saved) ==
    /\ wk[w].pc = "output_formatter"
    /\ \E next_state \in
            Reduce(wk[w].state, output_formatter_node(wk[w].state, saved)) :
          wk' = [wk EXCEPT ![w].state = next_state, ![w].pc = "end"]
    /\ UNCHANGED <<tasks, issued, now, coro, queue, future, agent_progress, reply, left, right, merged, sessions>>

\* A variant in which the error-handling step hands on an empty error list.
ErrorHandlerClearingErrors(w, saved) ==
    /\ wk[w].pc = "error_handler"
    /\ \E next_state \in
            Reduce(wk[w].state, error_handler_node(wk[w].state, saved)) :
          wk' = [wk EXCEPT ![w].state = [next_state EXCEPT !.error_messages = <<>>],
                           ![w].pc = "end"]
    /\ UNCHANGED <<tasks, issued, now, coro, queue, future, agent_progress, reply, left, right, merged, sessions>>

\* error_handler, whose only edge leads to END.
ErrorHandler(w, saved) ==
    /\ wk[w].pc = "error_handler"
    /\ \E next_state \in
            Reduce(wk[w].state, error_handler_node(wk[w].state, saved)) :
          wk' = [wk EXCEPT ![w].state = next_state, ![w].pc = "end"]
    /\ UNCHANGED <<tasks, issued, now, coro, queue, future, agent_progress, reply, left, right, merged, sessions>>

\* BiddingAnalysisGraph.run after graph.invoke: the final callback is
\* made only for the step completed.
RunEnd(w) ==
    /\ wk[w].pc = "end"
    /\ wk' = [wk EXCEPT ![w].pc =
                 IF wk[w].state.current_step = "completed"
                 THEN "cb_completed" ELSE "return"]
    /\ UNCHANGED <<tasks, issued, now, coro, queue, future, agent_progress, reply, left, right, merged, sessions>>

\* A variant in which the thread is freed and the awaited future is never
\* resolved.
WorkerReturnWithoutResult(w) ==
    /\ wk[w].pc \in {"return", "raised"}
    /\ wk' = [wk EXCEPT ![w] = Idle]
    /\ UNCHANGED <<tasks, issued, now, coro, queue, future, agent_progress, reply, left, right, merged, sessions>>

\* _run_analysis_sync returns: the final state of the graph, or the
\* failed result of its except branch; the worker thread is free again.
WorkerReturn(w) ==
    /\ wk[w].pc \in {"return", "raised"}
    /\ future' = Put(future, wk[w].task,
                     IF wk[w].pc = "raised" THEN FailedResult
                     ELSE FinalState(wk[w].state))
    /\ wk' = [wk EXCEPT ![w] = Idle]
    /\ UNCHANGED <<tasks, issued, now, coro, queue, agent_progress, reply, left, right, merged, sessions>>

\* ---------------------------------------------------------- specification
\* One submitted document, every outcome of every collaborator, the
\* clock and the cleanup calls that find something to remove.
WorkerStep(w) ==
    \/ WorkerTake(w)
    \/ \E built \in BOOLEAN : BuildGraph(w, built)
    \/ CallbackWriteStatus(w)
    \/ CallbackWriteProgress(w)
    \/ \E outcome \in DocOutcomes : DocumentProcessor(w, outcome)
    \/ \E e \in Extractors :
          \E o \in ExtractOutcomes(e, TRUE) : Extract(w, e, o)
    \/ Join(w)
    \/ \E raises \in BOOLEAN : Aggregate(w, raises)
    \/ Route(w)
    \/ \E saved \in BOOLEAN : OutputFormatter(w, saved)
    \/ \E saved \in BOOLEAN : ErrorHandler(w, saved)
    \/ RunEnd(w)
    \/ WorkerReturn(w)

Next ==
    \/ create_analysis_task("usable", 1)
    \/ \E h \in 0..MaxAge : CleanupThatRemoves(h)
    \/ Tick
    \/ \E t \in TaskIds : RunTaskStart(t)
    \/ \E t \in TaskIds : RunTaskFinish(t)
    \/ \E w \in Workers : WorkerStep(w)

Spec == Init /\ [][Next]_vars

\* Several documents submitted to the pool of max_workers threads.  Every
\* collaborator call terminates: a document either loads, and then every
\* later call answers, or does not load, and then every extraction
\* sub-step raises for want of a vector store.  The extraction nodes of a
\* run return in the order of their declaration: each writes its own entry
\* of updates, so their returns commute.  Every thread and the event loop
\* are scheduled fairly.
AllAnswer(e) == [raised |-> {}, fill |-> "all"]
AllRaise(e) == [raised |-> 1..SubSteps(e), fill |-> "none"]

PoolWorkerStep(w) ==
    \/ WorkerTake(w)
    \/ BuildGraph(w, TRUE)
    \/ CallbackWriteStatus(w)
    \/ CallbackWriteProgress(w)
    \/ \E outcome \in {"ok", "load_failed"} : DocumentProcessor(w, outcome)
    \/ \E i \in 1..3 :
          /\ \A j \in 1..(i - 1) : ExtractorOrder[j] \in DOMAIN wk[w].updates
          /\ Extract(w, ExtractorOrder[i],
                     IF wk[w].state.vector_store
                     THEN AllAnswer(ExtractorOrder[i])
                     ELSE AllRaise(ExtractorOrder[i]))
    \/ Join(w)
    \/ Aggregate(w, FALSE)
    \/ Route(w)
    \/ OutputFormatter(w, TRUE)
    \/ ErrorHandler(w, FALSE)
    \/ RunEnd(w)
    \/ WorkerReturn(w)

\* The steps of the event loop and of the pool's threads.
PoolProgress ==
    \/ \E t \in TaskIds : RunTaskStart(t)
    \/ \E t \in TaskIds : RunTaskFinish(t)
    \/ \E w \in Workers : PoolWorkerStep(w)

PoolNext ==
    \/ \E t \in TaskIds : create_analysis_task("usable", t)
    \/ PoolProgress

PoolSpec == Init /\ [][PoolNext]_vars /\ WF_vars(PoolProgress)

\* The event loop before any pool thread runs: submissions with every file
\* id, the starts of the coroutines, the clock and every cleanup call.
SubmitNext ==
    \/ \E file_id \in FileIds : \E task_id \in TaskIds :
          create_analysis_task(file_id, task_id)
    \/ \E h \in 0..MaxAge : cleanup_old_tasks(h)
    \/ Tick
    \/ \E t \in TaskIds : RunTaskStart(t)

SubmitSpec == Init /\ [][SubmitNext]_vars

\* ------------------------------------------------ requests and sessions
\* SessionMiddleware.dispatch gives every request a session id
\* (request.state.session_id); Sessions are the sessions of the callers.
Sessions == {"session_a", "session_b"}

\* The session_id start_analysis hands to create_analysis_task: the call
\* names file_id and options only, so the parameter keeps its default.
start_analysis_session_id(request_session) == None

\* POST /api/analyze served for a request of the session request_session:
\* create_analysis_task, whose ValueError becomes the HTTP status 400, then
\* the response built from the status of the new task.
start_analysis(request_session, file_id, task_id) ==
    /\ task_id = Cardinality(issued) + 1
    /\ IF ~get_file_info(file_id) \/ ~Truthy(get_pdf_path(file_id))
       THEN /\ reply' = Reply("HTTPException", file_id, 400, 0)
            /\ UNCHANGED <<issued, tasks, coro, sessions>>
       ELSE /\ issued' = issued \cup {task_id}
            /\ tasks' = Put(tasks, task_id,
                            [NewTask(now) EXCEPT
                                !.session_id =
                                    start_analysis_session_id(request_session)])
            /\ coro' = [coro EXCEPT ![task_id] = "created"]
            /\ sessions' = [sessions EXCEPT ![task_id] = request_session]
            /\ reply' = Reply("AnalysisTaskResponse", file_id, task_id, 0)
    /\ UNCHANGED <<now, queue, future, wk, agent_progress, left, right, merged>>

\* From the request to the pipeline's vector store: the requests of the
\* sessions, the starts of the coroutines, and the pool threads up to the
\* construction of the graph.
SessionWorkerStep(w) ==
    \/ WorkerTake(w)
    \/ BuildGraph(w, TRUE)

SessionNext ==
    \/ \E request_session \in Sessions : \E file_id \in FileIds :
          \E task_id \in TaskIds :
             start_analysis(request_session, file_id, task_id)
    \/ \E t \in TaskIds : RunTaskStart(t)
    \/ \E w \in Workers : SessionWorkerStep(w)

SessionSpec == Init /\ [][SessionNext]_vars

\* ------------------------------------------------------ the merge alone
\* merge_analysis_results applied to two snapshots.  A snapshot is the
\* empty result of a document with one part filled: a list of extracted
\* fields (with and without a source), the list of scoring items, the
\* processing notes, or a single field.
Seqs(S, n) == UNION {[1..k -> S] : k \in 0..n}

FieldItems ==
    {Field("cert"), ExtractedField("cert", NoSource),
     ExtractedField("iso", DocumentSource("page 2"))}

ScoringItems ==
    {ScoringItem("price", "price", "10", DocumentSource("price")),
     ScoringItem("price", "price", "20", DocumentSource("price")),
     ScoringItem("quality", "quality", "10", NoSource)}

Notes == {"structure", "report"}

SingleFields == {Field("name"), Field("other"), ExtractedField(" ", NoSource)}

Snapshots ==
    {[BiddingAnalysisResult("document") EXCEPT
         !.basic_information.qualification_criteria.company_certifications = l]
        : l \in Seqs(FieldItems, MaxLen)}
    \cup {[BiddingAnalysisResult("document") EXCEPT
              !.scoring_criteria.detailed_scoring = l]
             : l \in Seqs(ScoringItems, MaxLen)}
    \cup {[BiddingAnalysisResult("document") EXCEPT !.processing_notes = l]
             : l \in Seqs(Notes, MaxLen)}
    \cup {[BiddingAnalysisResult("document") EXCEPT
              !.basic_information.project_name = f]
             : f \in SingleFields}

MergeInit ==
    /\ tasks = NoTasks
    /\ issued = {}
    /\ now = 0
    /\ coro = [t \in TaskIds |-> "none"]
    /\ queue = <<>>
    /\ future = NoFutures
    /\ wk = [w \in Workers |-> Idle]
    /\ agent_progress = [e \in Extractors |-> 0]
    /\ reply = NoReply
    /\ left \in Snapshots
    /\ right \in Snapshots
    /\ merged = NoMerged
    /\ sessions = [t \in TaskIds |-> None]

\* merge(left, right)
MergeLeftRight ==
    /\ ~merged.ab.has
    /\ \E m \in merge_analysis_results(left, right) :
          merged' = [merged EXCEPT !.ab = SomeResult(m)]
    /\ UNCHANGED <<tasks, issued, now, coro, queue, future, wk, agent_progress, reply, left, right, sessions>>

\* merge(merge(left, right), right)
MergeAgain ==
    /\ merged.ab.has
    /\ ~merged.abb.has
    /\ \E m \in merge_analysis_results(merged.ab.value, right) :
          merged' = [merged EXCEPT !.abb = SomeResult(m)]
    /\ UNCHANGED <<tasks, issued, now, coro, queue, future, wk, agent_progress, reply, left, right, sessions>>

\* merge(right, left)
MergeRightLeft ==
    /\ ~merged.ba.has
    /\ \E m \in merge_analysis_results(right, left) :
          merged' = [merged EXCEPT !.ba = SomeResult(m)]
    /\ UNCHANGED <<tasks, issued, now, coro, queue, future, wk, agent_progress, reply, left, right, sessions>>

MergeNext == MergeLeftRight \/ MergeAgain \/ MergeRightLeft

MergeSpec == MergeInit /\ [][MergeNext]_vars

\* ------------------------------------------------ the progress registry
\* ParallelProgressManager called directly: update_agent_progress with
\* names the registry knows and one it does not know, and percents inside
\* and outside 0..100; get_overall_progress.
AgentNames == Extractors \cup {"unknown_agent"}

Percents == {0 - 10, 0, 50, 100, 150}

update_agent_progress(agent_name, progress) ==
    /\ agent_progress' =
          IF agent_name \in DOMAIN agent_progress
          THEN [agent_progress EXCEPT ![agent_name] = progress]
          ELSE agent_progress
    /\ reply' = Reply("update_agent_progress", agent_name, 0, progress)
    /\ UNCHANGED <<tasks, issued, now, coro, queue, future, wk, left, right, merged, sessions>>

ReadOverallProgress ==
    /\ reply' = Reply("overall_progress", None,
                      get_overall_progress(agent_progress), 0)
    /\ UNCHANGED <<tasks, issued, now, coro, queue, future, wk, agent_progress, left, right, merged, sessions>>

RegistryNext ==
    \/ \E agent_name \in AgentNames : \E progress \in Percents :
          update_agent_progress(agent_name, progress)
    \/ ReadOverallProgress

RegistrySpec == Init /\ [][RegistryNext]_vars

\* ------------------------------------------------------------- the claims
Terminal(t) ==
    t \in DOMAIN tasks /\ tasks[t].status \in {"completed", "failed"}

Recorded(error_messages, node) ==
    \E i \in 1..Len(error_messages) : error_messages[i].node = node

SectionOf(e) ==
    CASE e = "basic_info_extractor" -> "basic_information"
      [] e = "scoring_analyzer" -> "scoring_criteria"
      [] e = "contract_info_extractor" -> "contract_information"

Present(analysis_result, e) ==
    _validate_analysis_completeness(analysis_result)[SectionOf(e)]

PresentCount(analysis_result) ==
    completed_count(_validate_analysis_completeness(analysis_result))

\* The places of a run after the three extraction nodes were joined.
AfterJoin ==
    {"parallel_aggregator", "route", "cb_output_formatter",
     "cb_output_formatter_2", "output_formatter", "error_handler", "end",
     "cb_completed", "cb_completed_2", "return"}

\* The run of task t is over and its coroutine has stored the outcome.
Finished(t) ==
    t \in DOMAIN tasks /\ t \in DOMAIN future /\ coro[t] = "done"

\* The run was routed to error_handler: the aggregation raised, or it
\* derived extraction_failed, which is the step of a result without any
\* present section.
RoutedToErrorHandler(result) ==
    /\ result.analysis_result.has
    /\ \/ Recorded(result.error_messages, "parallel_aggregator")
       \/ PresentCount(result.analysis_result.value) = 0

\* C1: cleanup never removes a task that is executing: a task with the
\* status processing is still in the table after any step.
C1_ProcessingTaskStays ==
    [][\A t \in DOMAIN tasks :
          tasks[t].status = "processing" => t \in DOMAIN tasks']_vars

\* C2: when all three extraction steps fail (each records an error, no
\* section is present) the aggregation derives extraction_failed and the
\* task ends with the status failed.
AllThreeFailed(error_messages, analysis_result) ==
    /\ \A e \in Extractors : Recorded(error_messages, e)
    /\ PresentCount(analysis_result) = 0

C2_AllFailedEndsFailed ==
    /\ \A w \in Workers :
          (/\ wk[w].pc = "route"
           /\ AllThreeFailed(wk[w].state.error_messages,
                             wk[w].state.analysis_result)
           /\ ~Recorded(wk[w].state.error_messages, "parallel_aggregator"))
          => wk[w].state.current_step = "extraction_failed"
    /\ \A t \in TaskIds :
          (/\ Finished(t)
           /\ future[t].analysis_result.has
           /\ AllThreeFailed(future[t].error_messages,
                             future[t].analysis_result.value))
          => tasks[t].status = "failed"

\* C3: when exactly one extraction step fails (it raises and leaves its
\* section empty) and the other two succeed, then after the aggregation
\* the step is partial_extraction_completed, the error list has exactly
\* one entry and both successful sections are in the merged result.
StepFailed(w, e) ==
    /\ Recorded(wk[w].updates[e].error_messages, e)
    /\ ~Present(wk[w].updates[e].analysis_result, e)

StepSucceeded(w, e) ==
    /\ ~Recorded(wk[w].updates[e].error_messages, e)
    /\ Present(wk[w].updates[e].analysis_result, e)

OneFailedTwoSucceeded(w) ==
    /\ wk[w].pc = "route"
    /\ ~Recorded(wk[w].state.error_messages, "document_processor")
    /\ ~Recorded(wk[w].state.error_messages, "parallel_aggregator")
    /\ \E e \in Extractors :
          /\ StepFailed(w, e)
          /\ \A d \in Extractors \ {e} : StepSucceeded(w, d)

C3_OneFailureOneError ==
    \A w \in Workers :
       OneFailedTwoSucceeded(w) =>
          /\ wk[w].state.current_step = "partial_extraction_completed"
          /\ Len(wk[w].state.error_messages) = 1
          /\ \A e \in Extractors :
                StepSucceeded(w, e) =>
                   wk[w].state.analysis_result[SectionOf(e)]
                      = wk[w].updates[e].analysis_result[SectionOf(e)]

\* C4: every mutation of a task record is one atomic replace, so the
\* record a reader finds is always a whole record some mutation wrote:
\* the pending record of create_analysis_task, a processing record with
\* the snapshot of the step that set it, a completed record with its
\* result, or a failed record with its error.
WholeRecord(r) ==
    \/ /\ r.status = "pending"
       /\ r.progress = NewTask(0).progress
    \/ /\ r.status = "processing"
       /\ \E step \in {"document_processor", "output_formatter", "completed"} :
             r.progress = StatusProgress(step, agent_progress)
    \/ /\ r.status = "completed"
       /\ r.progress.current_step = "completed"
       /\ r.result.has
    \/ /\ r.status = "failed"
       /\ r.progress.current_step = "failed"
       /\ r.error_message.has

C4_ReadersSeeWholeRecords ==
    \A t \in DOMAIN tasks : WholeRecord(AnalysisStatusResponse(tasks[t]))

\* C5: with more tasks submitted than the pool has workers, and every
\* collaborator call terminating, each submitted task eventually has the
\* status completed or failed.  PoolSpec has the submissions and the runs;
\* the table is not cleaned meanwhile (cleanup_old_tasks is the subject
\* of C1).
C5_EverySubmittedTaskEnds ==
    []<>(\A t \in issued : Terminal(t))

\* More tasks than workers were submitted and all of them have ended.
C5_Witness ==
    /\ Cardinality(issued) > max_workers
    /\ \A t \in issued : Terminal(t)

\* C6: an exception inside one extraction step is caught there and
\* recorded; it never keeps a sibling from running, and after the join
\* every step has returned and its errors and its section are in the
\* graph state.
Contributed(state, e, update) ==
    /\ \A i \in 1..Len(update.error_messages) :
          update.error_messages[i].node = e =>
             \E k \in 1..Len(state.error_messages) :
                state.error_messages[k] = update.error_messages[i]
    /\ state.analysis_result[SectionOf(e)]
          = update.analysis_result[SectionOf(e)]

C6_FaultIsolation ==
    \A w \in Workers :
       /\ wk[w].pc = "extract" =>
             \A e \in Extractors \ DOMAIN wk[w].updates :
                ENABLED (\E o \in ExtractOutcomes(e, TRUE) : Extract(w, e, o))
       /\ wk[w].pc \in AfterJoin =>
             /\ DOMAIN wk[w].updates = Extractors
             /\ \A e \in Extractors :
                   Contributed(wk[w].state, e, wk[w].updates[e])

\* One step has raised, and the sections of its two siblings are present
\* in the aggregated state.
C6_Witness ==
    \E w \in Workers :
       /\ wk[w].pc = "route"
       /\ \E e \in Extractors :
             /\ Recorded(wk[w].updates[e].error_messages, e)
             /\ \A d \in Extractors \ {e} :
                   /\ ~Recorded(wk[w].updates[d].error_messages, d)
                   /\ Present(wk[w].state.analysis_result, d)

\* C7: when the formatting step fails while the result holds content, the
\* pipeline enters the error-handling step.
FormattingFails(w) ==
    /\ wk[w].pc = "output_formatter"
    /\ wk'[w].pc # "output_formatter"
    /\ wk'[w].state.current_step = "error"
    /\ PresentCount(wk[w].state.analysis_result) > 0

C8_ErrorHandlerRunsEndFailed ==
    \A t \in TaskIds :
       (Finished(t) /\ RoutedToErrorHandler(future[t]))
          => tasks[t].status = "failed"

\* C9: for a task in a terminal status getStatus returns the errors its
\* run recorded: a run that recorded errors shows them, whatever the
\* status.
C9_TerminalTaskShowsErrors ==
    \A t \in TaskIds :
       (Finished(t) /\ future[t].error_messages # <<>>)
          => /\ AnalysisStatusResponse(tasks[t]).error_message.has
             /\ AnalysisStatusResponse(tasks[t]).error_message.value
                   = future[t].error_messages

\* C10: the step the aggregation derives depends only on the number of
\* present sections and on whether an error was recorded: three and no
\* error give parallel_extraction_completed, at least one otherwise gives
\* partial_extraction_completed, none gives extraction_failed.
StepByRule(present, any_error) ==
    CASE present = 0 -> "extraction_failed"
      [] present = 3 /\ ~any_error -> "parallel_extraction_completed"
      [] OTHER -> "partial_extraction_completed"

C10_FinalStepRule ==
    \A w \in Workers :
       (wk[w].pc = "route"
           /\ ~Recorded(wk[w].state.error_messages, "parallel_aggregator"))
          => wk[w].state.current_step
                = StepByRule(PresentCount(wk[w].state.analysis_result),
                             wk[w].state.error_messages # <<>>)

\* All three sections are present and an error was recorded.
C10_Witness ==
    \E w \in Workers :
       /\ wk[w].pc = "route"
       /\ PresentCount(wk[w].state.analysis_result) = 3
       /\ wk[w].state.error_messages # <<>>
       /\ wk[w].state.current_step = "partial_extraction_completed"

\* A step of create_analysis_task: only it leaves a reply of these kinds.
SubmitStep ==
    reply' # reply /\ reply'.kind \in {"task_id", "ValueError"}

Resolves(file_id) == file_id = "usable"

\* C11: a submission whose file id is unknown, or whose file has no PDF
\* path, fails with the error for a file that is not there, and it leaves
\* the task table as it was: no record, no coroutine, nothing queued.
C11_RejectedSubmitChangesNothing ==
    [][(SubmitStep /\ ~Resolves(reply'.detail)) =>
          /\ reply'.kind = "ValueError"
          /\ tasks' = tasks
          /\ issued' = issued
          /\ coro' = coro
          /\ queue' = queue]_vars

\* A file without a PDF path was rejected while the table held a task.
C11_Witness ==
    /\ reply.kind = "ValueError"
    /\ reply.detail = "no_pdf"
    /\ DOMAIN tasks # {}

\* C12: a submission with a valid file id returns a task id, has stored
\* the record of that task with the status pending, and has not waited for
\* a pipeline step: no pool thread moved, nothing was queued or returned.
\* getStatus in the state it leaves finds the task, pending or processing.
C12_SubmitReturnsPending ==
    [][(SubmitStep /\ Resolves(reply'.detail)) =>
          /\ reply'.kind = "task_id"
          /\ reply'.value \notin DOMAIN tasks
          /\ reply'.value \in DOMAIN tasks'
          /\ tasks'[reply'.value].status = "pending"
          /\ AnalysisStatusResponse(tasks'[reply'.value]).status
                \in {"pending", "processing"}
          /\ coro'[reply'.value] = "created"
          /\ wk' = wk
          /\ queue' = queue
          /\ future' = future]_vars

\* The third task was submitted while both pool threads were running.
C12_Witness ==
    /\ reply.kind = "task_id"
    /\ reply.value = max_workers + 1
    /\ coro[reply.value] = "created"
    /\ reply.value \in DOMAIN tasks
    /\ tasks[reply.value].status = "pending"
    /\ \A w \in Workers : wk[w].pc # "idle"

\* A step of cleanup_old_tasks: only it leaves a reply of this kind.
CleanupStep ==
    /\ reply'.kind = "cleaned_count"
    /\ reply' # reply \/ DOMAIN tasks' # DOMAIN tasks

\* The tasks the rule of C13 lets cleanup remove: older than the threshold
\* and not executing.
Due(max_age_hours) ==
    {t \in DOMAIN tasks :
        /\ now - tasks[t].created_at > max_age_hours
        /\ tasks[t].status # "processing"}

\* C13: cleanup removes exactly the tasks that are older than the threshold
\* and not executing, leaves every other record as it was, and returns the
\* number it removed; with the threshold 0 it removes every terminal task
\* (each of which is older than the instant of the call).
C13_CleanupRemovesExactlyDue ==
    [][CleanupStep =>
          /\ DOMAIN tasks' = DOMAIN tasks \ Due(reply'.arg)
          /\ \A t \in DOMAIN tasks' : tasks'[t] = tasks[t]
          /\ reply'.value = Cardinality(Due(reply'.arg))
          /\ reply'.arg = 0 =>
                \A t \in DOMAIN tasks :
                   (Terminal(t) /\ now > tasks[t].created_at)
                      => t \notin DOMAIN tasks']_vars

\* C14: merge(A, A) = A for every snapshot A: no list item duplicated, no
\* list reordered.
C14_MergeIdempotent ==
    (left = right /\ merged.ab.has) => merged.ab.value = left

\* C15: merge(merge(A, B), B) = merge(A, B).
C15_MergeStable ==
    merged.abb.has => merged.abb.value = merged.ab.value

\* Every list field of an AnalysisResult, at every nesting level.
Lists(r) ==
    [company_certifications |->
         r.basic_information.qualification_criteria.company_certifications,
     project_experience |->
         r.basic_information.qualification_criteria.project_experience,
     other_scores |-> r.scoring_criteria.score_composition.other_scores,
     detailed_scoring |-> r.scoring_criteria.detailed_scoring,
     bonus_points |-> r.scoring_criteria.bonus_points,
     breach_liability |-> r.contract_information.breach_liability,
     contract_terms |-> r.contract_information.contract_terms,
     risk_warnings |-> r.contract_information.risk_warnings,
     processing_notes |-> r.processing_notes]

\* The rule of C16: the existing items in their order, then the new items
\* that have no duplicate in the list so far; two items are duplicates iff
\* they are equal in what they say and in the source snippet they cite.
RECURSIVE MergeByRule(_, _)
MergeByRule(existing_list, new_list) ==
    IF new_list = <<>> THEN existing_list
    ELSE MergeByRule(
             IF \E i \in 1..Len(existing_list) : existing_list[i] = Head(new_list)
             THEN existing_list
             ELSE Append(existing_list, Head(new_list)),
             Tail(new_list))

\* C16: every list field of merge(A, B) is the list the rule gives for the
\* same field of A and of B.
C16_ListsMergedByRule ==
    merged.ab.has =>
       \A f \in DOMAIN Lists(left) :
          Lists(merged.ab.value)[f] = MergeByRule(Lists(left)[f], Lists(right)[f])

\* C17: every list field of merge(A, B) holds the same set of items as the
\* same field of merge(B, A).
C17_ListsOrderInsensitive ==
    (merged.ab.has /\ merged.ba.has) =>
       \A f \in DOMAIN Lists(left) :
          Range(Lists(merged.ab.value)[f]) = Range(Lists(merged.ba.value)[f])

\* C18: update_agent_progress stores the percent clamped to 0..100, so
\* every entry of the registry is between 0 and 100 in every state.
C18_RegistryWithinRange ==
    \A agent_name \in DOMAIN agent_progress :
       agent_progress[agent_name] >= 0 /\ agent_progress[agent_name] <= 100

\* The floor of the arithmetic mean of the entries of a map.
FloorMean(f) ==
    LET n == Cardinality(DOMAIN f)
        total == SumOver(f, DOMAIN f)
    IN CHOOSE q \in (0 - 1000)..1000 : q * n <= total /\ total < (q + 1) * n

\* C19: get_overall_progress returns the floor of the mean of the percents
\* of the agents of the registry, capped at 100; for the percents 100, 50
\* and 0 it returns 50.
C19_OverallIsCappedFloorMean ==
    [][(reply'.kind = "overall_progress" /\ reply' # reply) =>
          /\ reply'.value = Min(100, FloorMean(agent_progress))
          /\ (\E a, b, c \in DOMAIN agent_progress :
                 /\ Cardinality({a, b, c}) = 3
                 /\ agent_progress[a] = 100
                 /\ agent_progress[b] = 50
                 /\ agent_progress[c] = 0)
                => reply'.value = 50]_vars

\* The percents 100, 50 and 0 were set and the overall progress read.
C19_Witness ==
    /\ agent_progress["basic_info_extractor"] = 100
    /\ agent_progress["scoring_analyzer"] = 50
    /\ agent_progress["contract_info_extractor"] = 0
    /\ reply = Reply("overall_progress", None, 50, 0)

\* C20: once a task has the status completed or failed, its status, its
\* result and its error information stay as they are for as long as the
\* task is in the table.
C20_TerminalRecordFrozen ==
    [][\A t \in DOMAIN tasks \cap DOMAIN tasks' :
          Terminal(t) =>
             /\ tasks'[t].status = tasks[t].status
             /\ tasks'[t].result = tasks[t].result
             /\ tasks'[t].error_message = tasks[t].error_message
             /\ tasks'[t].report_file_path = tasks[t].report_file_path]_vars

\* A task ended, its run is over, and the clock has moved since.
C20_Witness ==
    \E t \in DOMAIN tasks :
       /\ Terminal(t)
       /\ Finished(t)
       /\ \A w \in Workers : wk[w].pc = "idle"
       /\ now > tasks[t].created_at

\* The pool threads whose graph is built.
Built(w) == wk[w].persist_directory # <<>>

\* C21: a task created by a request of the session S runs its pipeline with
\* the session id S, and the pipelines of two tasks whose requests came from
\* different sessions do not use the same vector store directory.
C21_RunsUseRequestSession ==
    /\ \A w \in Workers :
          Built(w) => wk[w].session_id = sessions[wk[w].task]
    /\ \A v, w \in Workers :
          (Built(v) /\ Built(w) /\ sessions[wk[v].task] # sessions[wk[w].task])
             => wk[v].persist_directory # wk[w].persist_directory

\* The preprocessing step of the run on thread w has failed.
PreprocessingFailed(w) ==
    /\ wk[w].pc \notin {"idle", "sync", "raised", "cb_document_processor",
                        "cb_document_processor_2", "document_processor"}
    /\ Recorded(wk[w].state.error_messages, "document_processor")

\* The places of a run from the error-handling step on.
FromErrorHandler ==
    {"error_handler", "end", "cb_completed", "cb_completed_2", "return"}

\* C22: when the preprocessing step fails, the run goes directly to the
\* error-handling step: it is never at the extraction steps, the aggregation
\* or the formatting step, and no extraction step has run in it.
C22_FailedPreprocessingSkipsExtraction ==
    \A w \in Workers :
       PreprocessingFailed(w) =>
          /\ wk[w].pc \in FromErrorHandler
          /\ wk[w].updates = NoUpdates

\* C23: within one run the aggregation step executes only after all three
\* extraction steps have returned, whether they succeeded or not: a run
\* reaches the aggregation step only from the extraction steps with all
\* three returned, it stays at the extraction steps while a sibling is
\* still running, and when the aggregation executes all three have returned.
C23_AggregationAfterAllThree ==
    [][\A w \in Workers :
          /\ (wk[w].pc # "parallel_aggregator"
                 /\ wk'[w].pc = "parallel_aggregator")
                => (wk[w].pc = "extract" /\ DOMAIN wk[w].updates = Extractors)
          /\ (wk[w].pc = "extract" /\ DOMAIN wk[w].updates # Extractors)
                => wk'[w].pc = "extract"
          /\ (wk[w].pc = "parallel_aggregator" /\ wk'[w].pc = "route")
                => DOMAIN wk[w].updates = Extractors]_vars

\* The aggregation has executed in a run in which one extraction step
\* raised in every sub-step and the two others answered.
C23_Witness ==
    \E w \in Workers :
       /\ wk[w].pc = "route"
       /\ wk[w].state.current_step = "partial_extraction_completed"
       /\ \E e \in Extractors :
             /\ Len(wk[w].updates[e].error_messages) = SubSteps(e)
             /\ \A d \in Extractors \ {e} :
                   wk[w].updates[d].error_messages = <<>>

\* For each section, whether any of its fields is populated: a scalar
\* field with a non-empty value or a non-empty list, at any nesting level.
AnyFieldPopulated(analysis_result) ==
    LET basic_info == analysis_result.basic_information
        scoring == analysis_result.scoring_criteria
        contract == analysis_result.contract_information
    IN [basic_information |->
            \/ Truthy(basic_info.project_name.value)
            \/ Truthy(basic_info.tender_number.value)
            \/ Truthy(basic_info.budget_amount.value)
            \/ basic_info.qualification_criteria.company_certifications # <<>>
            \/ basic_info.qualification_criteria.project_experience # <<>>,
        scoring_criteria |->
            \/ Truthy(scoring.evaluation_method.value)
            \/ Truthy(scoring.score_composition.technical_score.value)
            \/ scoring.score_composition.other_scores # <<>>
            \/ scoring.detailed_scoring # <<>>
            \/ scoring.bonus_points # <<>>,
        contract_information |->
            \/ contract.breach_liability # <<>>
            \/ contract.contract_terms # <<>>
            \/ Truthy(contract.payment_terms.value)
            \/ contract.risk_warnings # <<>>]

\* C24: the completeness check of the aggregation step counts a section as
\* present exactly when at least one field of the section is populated.
C24_PresentIffAnyFieldPopulated ==
    \A w \in Workers :
       wk[w].pc = "parallel_aggregator" =>
          \A section \in Sections :
             _validate_analysis_completeness(wk[w].state.analysis_result)[section]
                <=> AnyFieldPopulated(wk[w].state.analysis_result)[section]

\* C25: each extraction step reports its progress to the registry, so once
\* it has finished the registry entry of its agent is 100, and a progress
\* snapshot of the task that carries the per-agent map shows 100 for it.
C25_FinishedStepReported ==
    \A w \in Workers :
       \A e \in DOMAIN wk[w].updates :
          /\ agent_progress[e] = 100
          /\ (wk[w].task \in DOMAIN tasks
                 /\ tasks[wk[w].task].progress.agent_progress.has)
                => tasks[wk[w].task].progress.agent_progress.value[e] = 100

IsPrefix(a, b) == Len(a) <= Len(b) /\ SubSeq(b, 1, Len(a)) = a

\* C26: within one run the error list only grows: over every step of the
\* pipeline, the reduction of the three extraction outputs and the
\* error-handling step included, the list before the step is a prefix of
\* the list after it.
C26_ErrorListOnlyGrows ==
    [][\A w \in Workers :
          (wk[w].task # 0 /\ wk'[w].task = wk[w].task)
             => IsPrefix(wk[w].state.error_messages,
                         wk'[w].state.error_messages)]_vars

\* A run has ended whose list grew at the reduction of the extraction
\* outputs, at the aggregation and at the error-handling step.
C26_Witness ==
    \E w \in Workers :
       /\ wk[w].pc = "end"
       /\ \A e \in Extractors : Recorded(wk[w].state.error_messages, e)
       /\ Recorded(wk[w].state.error_messages, "parallel_aggregator")
       /\ Recorded(wk[w].state.error_messages, "output_formatter")

\* The invocations of the pipeline for task t: the calls waiting in the
\* queue of the pool, the calls a pool thread is running, and the call
\* that has returned (a returned result is never taken away again).
Invocations(t) ==
    Cardinality({i \in 1..Len(queue) : queue[i].task_id = t})
    + Cardinality({w \in Workers : wk[w].task = t})
    + (IF t \in DOMAIN future THEN 1 ELSE 0)

\* C27: for every task id the pipeline is invoked at most once: never two
\* runs at the same time, never a second run after the first, and no new
\* run after a failed one.
C27_AtMostOneRunPerTask ==
    \A t \in TaskIds : Invocations(t) <= 1

\* Every thread is idle and nothing is queued after a run has failed and
\* another one has completed.
C27_Witness ==
    /\ queue = <<>>
    /\ \A w \in Workers : wk[w].pc = "idle"
    /\ \E t \in DOMAIN tasks : Finished(t) /\ tasks[t].status = "failed"
    /\ \E t \in DOMAIN tasks : Finished(t) /\ tasks[t].status = "completed"

\* Task t waits for a pool thread or occupies one.
InPool(t) ==
    \/ \E i \in 1..Len(queue) : queue[i].task_id = t
    \/ \E w \in Workers : wk[w].task = t

\* C28: the start of a task's run sets its status to processing before
\* the pipeline is handed to the pool, so a task that waits for a pool
\* thread or occupies one never has the status pending.
C28_InPoolNotPending ==
    \A t \in DOMAIN tasks : InPool(t) => tasks[t].status # "pending"

\* C29: in every state, a task whose progress snapshot shows the step
\* completed, at 100 percent, has the status completed and a result; a
\* reader never finds the step completed together with the status
\* processing.
C29_StepCompletedMeansCompleted ==
    \A t \in DOMAIN tasks :
       LET response == AnalysisStatusResponse(tasks[t])
       IN (response.progress.current_step = "completed"
              /\ response.progress.progress_percentage = 100)
             => (response.status = "completed" /\ response.result.has)

\* C30: a task ends with the status completed if and only if its run
\* returned a final state whose step is completed; every other outcome
\* (another final step, or the failed result that stands for an exception
\* while the pipeline was built or run) ends it with the status failed and
\* an error; and no exception escapes the task's run: once the pool has
\* returned, the coroutine can always take its last step.
C30_CompletedIffRunCompleted ==
    \A t \in TaskIds :
       /\ Finished(t) =>
             /\ tasks[t].status \in {"completed", "failed"}
             /\ tasks[t].status = "completed"
                   <=> future[t].current_step = "completed"
             /\ tasks[t].status = "failed" => tasks[t].error_message.has
       /\ (coro[t] = "awaiting" /\ t \in DOMAIN future)
             => ENABLED RunTaskFinish(t)

\* A run returned a result whose final step is error, and its task has
\* ended with the status failed.
C30_Witness ==
    \E t \in DOMAIN tasks :
       /\ Finished(t)
       /\ tasks[t].status = "failed"
       /\ future[t].current_step = "error"
       /\ future[t].analysis_result.has

====
